---- MODULE Spec2Model ----
(***************************************************************************)
(* The User-ID batching engine of gopanosapi (type UID, src/apicommon.go   *)
(* lines 516-761): a ledger of pending login/logout entries and group      *)
(* memberships guarded by dataLock, a change counter whose threshold       *)
(* raises the condition variable `flusher`, a ticker goroutine (tickRcvr)  *)
(* and the flush goroutine (flushData), started by Init and joined by      *)
(* Close.                                                                  *)
(*                                                                         *)
(* Go's sync.Cond keeps no memory of a Signal: Signal wakes a goroutine    *)
(* that is parked in Wait and does nothing when none is parked.  Wait      *)
(* registers the caller and releases flusher.L in one atomic step (the     *)
(* runtime's notify ticket is taken while L is still held), so a Signal    *)
(* issued under L is either before the registration or after the park.     *)
(*                                                                         *)
(* The slices of the envelope are filled by ranging over Go maps, whose    *)
(* order is unspecified; they hold no duplicates (map keys are unique), so *)
(* each slice is modelled as the set of its entries.                       *)
(***************************************************************************)
EXTENDS Integers, FiniteSets, Sequences, TLC

\* ---------------------------------------------------------------- constants
UIDVERSION == "2.0"
UIDTYPE == "update"
MAXCHANGES == 100

\* ------------------------------------------------------------------- bounds
\* Callers of the varied workload stop calling once the counter reaches this.
MaxPending == 3
\* Callers of the group-churn workload may run this far past MAXCHANGES.
MaxOvershoot == 2

\* ------------------------------------------------------------------- inputs
\* Arguments of AddLogin (username, ipaddr, timeout) in the varied workload.
LoginArgs ==
    { <<"alice", "10.0.0.1", "60">>, <<"bob", "10.0.0.2", "">> }
\* Arguments of AddLogout (username, ipaddr): on each address, another user
\* than the one AddLogin names.
LogoutArgs == { <<"bob", "10.0.0.1">>, <<"alice", "10.0.0.2">> }
\* Arguments of AddGroupMember / RemoveGroupMember (group, member).
GroupArgs == { <<"grp1", "alice">>, <<"grp1", "bob">> }
\* The group-churn workload: one membership added and removed over and over,
\* and one login entered and cancelled.
ChurnArgs == { <<"grp1", "alice">> }
ChurnLoginArgs == { <<"alice", "10.0.0.1", "60">> }

VARIABLES
    initDone,          \* "no" | "err" | "ok": what Init returned, if called
    isRunning,         \* UID.isRunning
    payloadE,          \* UID.payloadE
    ip2uTransactions,  \* UID.ip2uTransactions: ip -> userPendingEntries
    groups,            \* UID.groups: group -> set of members
    cumChanges,        \* UID.cumChanges
    dataLock,          \* holder of UID.dataLock: "free" | "caller" | "tick" | "flush"
    flusherL,          \* holder of UID.flusher.L: "free" | "flush"
    flusherQuit,       \* TRUE once close(uid.flusherQuit)
    tickerQuit,        \* TRUE once close(uid.tickerQuit)
    wg,                \* counter of UID.wg
    flushPc,           \* position of the flushData goroutine
    tickPc,            \* position of the tickRcvr goroutine
    closePc,           \* position of the caller of Close
    callerPc,          \* position of the caller of a mutation operation
    last,              \* history: the latest mutation call, Close call or drain
    missed,            \* history: sources of the Signals that found the flush
                       \*          task busy since it last drained
    closeDrained,      \* history: a drain ran after flusherQuit was closed
    submitted,         \* history: how device.Uid returned for the latest drained
                       \*          batch: "none" (not yet) | "ok" | "error"
    groupChanges       \* history: effective group membership changes (adds and
                       \*          removals) since the latest drain

vars ==
    << initDone, isRunning, payloadE, ip2uTransactions, groups, cumChanges,
       dataLock, flusherL, flusherQuit, tickerQuit, wg, flushPc, tickPc,
       closePc, callerPc, last, missed, closeDrained, submitted, groupChanges >>

ledger == << ip2uTransactions, groups, cumChanges >>
tasks == << flusherQuit, tickerQuit, wg, tickPc, closePc, isRunning, initDone >>

\* ------------------------------------------------------------------ helpers
EmptyMap == [k \in {} |-> {}]

MapPut(f, k, v) == [x \in DOMAIN f \cup {k} |-> IF x = k THEN v ELSE f[x]]

MapDelete(f, k) == [x \in DOMAIN f \ {k} |-> f[x]]

NoCall == [op |-> "none", args |-> <<>>, cum |-> 0, hit |-> FALSE]

Call(op, args, hit) == [op |-> op, args |-> args, cum |-> cumChanges, hit |-> hit]

\* The zero value of payloadElement.
ZeroPayload ==
    [Version |-> "", Type |-> "", LoginEntries |-> {}, LogoutEntries |-> {},
     GroupEntries |-> {}]

\* sync.Cond.Signal on uid.flusher, called with flusher.L held: it wakes the
\* flush task when that is parked in Wait and has no effect otherwise.  The
\* history variable records a Signal that finds the flush task past its drain
\* and not yet parked; a successful wake clears the record.
Signal(src) ==
    CASE flushPc = "parked" -> flushPc' = "woken" /\ missed' = {}
      [] flushPc \in {"submit", "select", "lock", "wait"} ->
            UNCHANGED flushPc /\ missed' = missed \cup {src}
      [] OTHER -> UNCHANGED << flushPc, missed >>

\* ------------------------------------------------------------------- Init
Init ==
    /\ initDone = "no"
    /\ isRunning = FALSE
    /\ payloadE = ZeroPayload
    /\ ip2uTransactions = EmptyMap
    /\ groups = EmptyMap
    /\ cumChanges = 0
    /\ dataLock = "free"
    /\ flusherL = "free"
    /\ flusherQuit = FALSE
    /\ tickerQuit = FALSE
    /\ wg = 0
    /\ flushPc = "off"
    /\ tickPc = "off"
    /\ closePc = "idle"
    /\ callerPc = "idle"
    /\ last = NoCall
    /\ missed = {}
    /\ closeDrained = FALSE
    /\ submitted = "none"
    /\ groupChanges = 0

\* An Init that starts its goroutines before it looks at Keygen's error.
UIDInit_StartsAnyway(authOk) ==
    /\ initDone = "no"
    /\ payloadE' = [payloadE EXCEPT !.Version = UIDVERSION, !.Type = UIDTYPE]
    /\ ip2uTransactions' = EmptyMap
    /\ groups' = EmptyMap
    /\ wg' = 2
    /\ flushPc' = "select"
    /\ tickPc' = "select"
    /\ isRunning' = authOk
    /\ initDone' = (IF authOk THEN "ok" ELSE "err")
    /\ UNCHANGED << cumChanges, dataLock, flusherL, flusherQuit, tickerQuit,
                    closePc, callerPc, last, missed, closeDrained, submitted,
                    groupChanges >>

\* UID.Init: Keygen succeeds (authOk) or fails.
UIDInit(authOk) ==
    /\ initDone = "no"
    /\ payloadE' = [payloadE EXCEPT !.Version = UIDVERSION, !.Type = UIDTYPE]
    /\ ip2uTransactions' = EmptyMap
    /\ groups' = EmptyMap
    /\ IF authOk
       THEN /\ wg' = 2
            /\ flushPc' = "select"
            /\ tickPc' = "select"
            /\ isRunning' = TRUE
            /\ initDone' = "ok"
       ELSE /\ initDone' = "err"
            /\ UNCHANGED << wg, flushPc, tickPc, isRunning >>
    /\ UNCHANGED << cumChanges, dataLock, flusherL, flusherQuit, tickerQuit,
                    closePc, callerPc, last, missed, closeDrained, submitted,
                    groupChanges >>

\* UID.IsRunning
IsRunning == isRunning

\* ------------------------------------------------------ mutation operations
\* An incChange that tests the threshold only when the counter went up.
incChange_OnIncrementOnly(increment) ==
    /\ cumChanges' = cumChanges + increment
    /\ callerPc' = IF increment > 0 /\ cumChanges + increment = MAXCHANGES
                   THEN "signal" ELSE "unlock"

\* UID.incChange, up to the test of the threshold: the caller goes on to raise
\* the wake signal ("signal") or straight to dataLock.Unlock ("unlock").
incChange(increment) ==
    /\ cumChanges' = cumChanges + increment
    /\ callerPc' = IF cumChanges + increment = MAXCHANGES THEN "signal" ELSE "unlock"

\* What every mutation operation does besides its change of the ledger: it runs
\* on a running engine, takes dataLock and leaves the goroutines alone.
Locked ==
    /\ initDone = "ok"
    /\ callerPc = "idle"
    /\ dataLock = "free"
    /\ dataLock' = "caller"
    /\ UNCHANGED << payloadE, flusherL, flushPc, missed, closeDrained, submitted,
                    tasks >>

\* UID.AddLogin, from dataLock.Lock to the end of incChange's counter update.
AddLogin(username, ipaddr, timeout) ==
    /\ Locked
    /\ last' = Call("AddLogin", <<username, ipaddr, timeout>>,
                    ipaddr \in DOMAIN ip2uTransactions)
    /\ IF ipaddr \in DOMAIN ip2uTransactions
       THEN /\ ip2uTransactions' = MapDelete(ip2uTransactions, ipaddr)
            /\ incChange(-1)
       ELSE /\ ip2uTransactions' =
                  MapPut(ip2uTransactions, ipaddr,
                         [isLogin |-> TRUE, username |-> username, timeout |-> timeout])
            /\ incChange(1)
    /\ UNCHANGED << groups, groupChanges >>

\* A kind-aware AddLogout: a pending entry is replaced by the logout.
AddLogout_Replaces(username, ipaddr) ==
    /\ Locked
    /\ last' = Call("AddLogout", <<username, ipaddr>>,
                    ipaddr \in DOMAIN ip2uTransactions)
    /\ ip2uTransactions' =
          MapPut(ip2uTransactions, ipaddr,
                 [isLogin |-> FALSE, username |-> username, timeout |-> ""])
    /\ IF ipaddr \in DOMAIN ip2uTransactions
       THEN callerPc' = "unlock" /\ UNCHANGED cumChanges
       ELSE incChange(1)
    /\ UNCHANGED << groups, groupChanges >>

\* UID.AddLogout, likewise.
AddLogout(username, ipaddr) ==
    /\ Locked
    /\ last' = Call("AddLogout", <<username, ipaddr>>,
                    ipaddr \in DOMAIN ip2uTransactions)
    /\ IF ipaddr \in DOMAIN ip2uTransactions
       THEN /\ ip2uTransactions' = MapDelete(ip2uTransactions, ipaddr)
            /\ incChange(-1)
       ELSE /\ ip2uTransactions' =
                  MapPut(ip2uTransactions, ipaddr,
                         [isLogin |-> FALSE, username |-> username, timeout |-> ""])
            /\ incChange(1)
    /\ UNCHANGED << groups, groupChanges >>

\* AddGroupMember without the membership test: every call counts as a change.
AddGroupMember_AlwaysCounts(group, member) ==
    /\ Locked
    /\ last' = Call("AddGroupMember", <<group, member>>,
                    group \in DOMAIN groups /\ member \in groups[group])
    /\ groups' = MapPut(groups, group,
                        (IF group \in DOMAIN groups THEN groups[group] ELSE {})
                            \cup {member})
    /\ groupChanges' =
          IF group \in DOMAIN groups /\ member \in groups[group]
          THEN groupChanges ELSE groupChanges + 1
    /\ incChange(1)
    /\ UNCHANGED ip2uTransactions

\* UID.AddGroupMember.
AddGroupMember(group, member) ==
    /\ Locked
    /\ last' = Call("AddGroupMember", <<group, member>>,
                    group \in DOMAIN groups /\ member \in groups[group])
    /\ IF group \in DOMAIN groups
       THEN IF member \notin groups[group]
            THEN /\ groups' = [groups EXCEPT ![group] = @ \cup {member}]
                 /\ groupChanges' = groupChanges + 1
                 /\ incChange(1)
            ELSE /\ callerPc' = "unlock"
                 /\ UNCHANGED << groups, cumChanges, groupChanges >>
       ELSE /\ groups' = MapPut(groups, group, {member})
            /\ groupChanges' = groupChanges + 1
            /\ incChange(1)
    /\ UNCHANGED ip2uTransactions

\* RemoveGroupMember that counts a change also when nothing was removed.
RemoveGroupMember_AlwaysCounts(group, member) ==
    /\ Locked
    /\ last' = Call("RemoveGroupMember", <<group, member>>,
                    group \in DOMAIN groups /\ member \in groups[group])
    /\ groups' = IF group \in DOMAIN groups
                 THEN [groups EXCEPT ![group] = @ \ {member}]
                 ELSE groups
    /\ groupChanges' =
          IF group \in DOMAIN groups /\ member \in groups[group]
          THEN groupChanges + 1 ELSE groupChanges
    /\ incChange(1)
    /\ UNCHANGED ip2uTransactions

\* UID.RemoveGroupMember.
RemoveGroupMember(group, member) ==
    /\ Locked
    /\ last' = Call("RemoveGroupMember", <<group, member>>,
                    group \in DOMAIN groups /\ member \in groups[group])
    /\ IF group \in DOMAIN groups /\ member \in groups[group]
       THEN /\ groups' = [groups EXCEPT ![group] = @ \ {member}]
            /\ groupChanges' = groupChanges + 1
            /\ incChange(1)
       ELSE /\ callerPc' = "unlock"
            /\ UNCHANGED << groups, cumChanges, groupChanges >>
    /\ UNCHANGED ip2uTransactions

\* The rest of a mutation operation: incChange's Signal under flusher.L when
\* the counter hit MAXCHANGES, then dataLock.Unlock.
CallerReturn ==
    /\ callerPc \in {"unlock", "signal"}
    /\ IF callerPc = "signal"
       THEN flusherL = "free" /\ Signal("threshold")
       ELSE UNCHANGED << flushPc, missed >>
    /\ callerPc' = "idle"
    /\ dataLock' = "free"
    /\ UNCHANGED << payloadE, ledger, flusherL, last, closeDrained, submitted,
                    groupChanges, tasks >>

\* ------------------------------------------------------------- timer task
\* A tick that never signals.
Tick_NeverSignals ==
    /\ tickPc = "select"
    /\ dataLock = "free"
    /\ UNCHANGED vars

\* A tick that signals without the test of the counter.
Tick_AlwaysSignals ==
    /\ tickPc = "select"
    /\ dataLock = "free"
    /\ tickPc' = "signal"
    /\ dataLock' = "tick"
    /\ UNCHANGED << payloadE, ledger, flusherL, flusherQuit, tickerQuit, wg,
                    flushPc, closePc, callerPc, isRunning, initDone, last,
                    missed, closeDrained, submitted, groupChanges >>

\* UID.tickRcvr, case <-uid.ticking.C up to the test of the counter.  A tick
\* may be taken whenever the goroutine is at its select: with both channels
\* ready Go picks either case.
Tick ==
    /\ tickPc = "select"
    /\ dataLock = "free"
    /\ IF cumChanges > 0
       THEN tickPc' = "signal" /\ dataLock' = "tick"
       ELSE UNCHANGED << tickPc, dataLock >>
    /\ UNCHANGED << payloadE, ledger, flusherL, flusherQuit, tickerQuit, wg,
                    flushPc, closePc, callerPc, isRunning, initDone, last,
                    missed, closeDrained, submitted, groupChanges >>

\* UID.tickRcvr: the Signal under flusher.L, then dataLock.Unlock.
TickSignal ==
    /\ tickPc = "signal"
    /\ flusherL = "free"
    /\ Signal("tick")
    /\ tickPc' = "select"
    /\ dataLock' = "free"
    /\ UNCHANGED << payloadE, ledger, flusherL, flusherQuit, tickerQuit, wg,
                    closePc, callerPc, isRunning, initDone, last, closeDrained,
                    submitted, groupChanges >>

\* UID.tickRcvr, case <-uid.tickerQuit, and the deferred wg.Done.
TickQuit ==
    /\ tickPc = "select"
    /\ tickerQuit
    /\ tickPc' = "done"
    /\ wg' = wg - 1
    /\ UNCHANGED << payloadE, ledger, dataLock, flusherL, flusherQuit, tickerQuit,
                    flushPc, closePc, callerPc, isRunning, initDone, last,
                    missed, closeDrained, submitted, groupChanges >>

\* ------------------------------------------------------------- flush task
flushFrame ==
    << payloadE, ledger, flusherQuit, tickerQuit, tickPc, closePc, callerPc,
       isRunning, initDone, last, missed, closeDrained, groupChanges >>

\* A flush loop that never looks at its quit channel.
FlushSelect_IgnoresQuit ==
    /\ flushPc = "select"
    /\ flushPc' = "lock"
    /\ UNCHANGED << flushFrame, dataLock, submitted, flusherL, wg >>

\* UID.flushData: the select.  The default case runs only when flusherQuit is
\* not closed; otherwise the goroutine returns (deferred wg.Done).
FlushSelect ==
    /\ flushPc = "select"
    /\ IF flusherQuit
       THEN flushPc' = "done" /\ wg' = wg - 1
       ELSE flushPc' = "lock" /\ UNCHANGED wg
    /\ UNCHANGED << flushFrame, dataLock, submitted, flusherL >>

\* uid.flusher.L.Lock()
FlushLock ==
    /\ flushPc = "lock"
    /\ flusherL = "free"
    /\ flusherL' = "flush"
    /\ flushPc' = "wait"
    /\ UNCHANGED << flushFrame, dataLock, submitted, wg >>

\* uid.flusher.Wait(): register, release L and park.
FlushWait ==
    /\ flushPc = "wait"
    /\ flusherL' = "free"
    /\ flushPc' = "parked"
    /\ UNCHANGED << flushFrame, dataLock, submitted, wg >>

\* uid.flusher.Wait() after the wake: take L again.
FlushRelock ==
    /\ flushPc = "woken"
    /\ flusherL = "free"
    /\ flusherL' = "flush"
    /\ flushPc' = "unlock"
    /\ UNCHANGED << flushFrame, dataLock, submitted, wg >>

\* A flush task that goes on to dataLock.Lock with flusher.L still held.
FlushUnlock_KeepsL ==
    /\ flushPc = "unlock"
    /\ flushPc' = "dataLock"
    /\ UNCHANGED << flushFrame, dataLock, submitted, flusherL, wg >>

\* uid.flusher.L.Unlock()
FlushUnlock ==
    /\ flushPc = "unlock"
    /\ flusherL' = "free"
    /\ flushPc' = "dataLock"
    /\ UNCHANGED << flushFrame, dataLock, submitted, wg >>

\* uid.dataLock.Lock()
FlushDataLock ==
    /\ flushPc = "dataLock"
    /\ dataLock = "free"
    /\ dataLock' = "flush"
    /\ flushPc' = "drain"
    /\ UNCHANGED << flushFrame, submitted, flusherL, wg >>

\* A range that forgets the test of isLogin.
LoginEntriesOf_AllKinds(m) ==
    { [Name |-> m[ip].username, Ip |-> ip, Timeout |-> m[ip].timeout] :
        ip \in DOMAIN m }

\* The login slice built by the range over ip2uTransactions.
LoginEntriesOf(m) ==
    { [Name |-> m[ip].username, Ip |-> ip, Timeout |-> m[ip].timeout] :
        ip \in {i \in DOMAIN m : m[i].isLogin} }

\* A range that appends no logout entry.
LogoutEntriesOf_None(m) == {}

\* The logout slice built by the same range.
LogoutEntriesOf(m) ==
    { [Name |-> m[ip].username, Ip |-> ip] :
        ip \in {i \in DOMAIN m : ~m[i].isLogin} }

\* The group slice built by the range over groups.
GroupEntriesOf(g) ==
    { [Name |-> gName, Members |-> {[Name |-> mName] : mName \in g[gName]}] :
        gName \in DOMAIN g }

\* A collector that deletes every group.
gGarbage_DropsAll(g) == EmptyMap

\* A collector that deletes nothing.
gGarbage_KeepsAll(g) == g

\* UID.gGarbage
gGarbage(g) == [gName \in {n \in DOMAIN g : g[n] # {}} |-> g[gName]]

\* A drain that forgets to reset the counter.
FlushDrain_KeepsCounter ==
    /\ flushPc = "drain"
    /\ dataLock = "flush"
    /\ dataLock' = "free"
    /\ payloadE' = [payloadE EXCEPT
                      !.LoginEntries = LoginEntriesOf(ip2uTransactions),
                      !.LogoutEntries = LogoutEntriesOf(ip2uTransactions),
                      !.GroupEntries = GroupEntriesOf(groups)]
    /\ groups' = gGarbage(groups)
    /\ ip2uTransactions' = EmptyMap
    /\ flushPc' = "submit"
    /\ last' = [NoCall EXCEPT !.op = "drain"]
    /\ missed' = {}
    /\ closeDrained' = (closeDrained \/ flusherQuit)
    /\ submitted' = "none"
    /\ groupChanges' = 0
    /\ UNCHANGED << cumChanges, flusherL, callerPc, tasks >>

\* A drain that goes on to the submission without dataLock.Unlock.
FlushDrain_HoldsLock ==
    /\ flushPc = "drain"
    /\ dataLock = "flush"
    /\ payloadE' = [payloadE EXCEPT
                      !.LoginEntries = LoginEntriesOf(ip2uTransactions),
                      !.LogoutEntries = LogoutEntriesOf(ip2uTransactions),
                      !.GroupEntries = GroupEntriesOf(groups)]
    /\ groups' = gGarbage(groups)
    /\ ip2uTransactions' = EmptyMap
    /\ cumChanges' = 0
    /\ flushPc' = "submit"
    /\ last' = [NoCall EXCEPT !.op = "drain"]
    /\ missed' = {}
    /\ closeDrained' = (closeDrained \/ flusherQuit)
    /\ submitted' = "none"
    /\ groupChanges' = 0
    /\ UNCHANGED << dataLock, flusherL, callerPc, tasks >>

\* UID.flushData under dataLock: rebuild of the envelope, gGarbage, reset of the
\* pending map and the counter, dataLock.Unlock.
FlushDrain ==
    /\ flushPc = "drain"
    /\ dataLock = "flush"
    /\ dataLock' = "free"
    /\ payloadE' = [payloadE EXCEPT
                      !.LoginEntries = LoginEntriesOf(ip2uTransactions),
                      !.LogoutEntries = LogoutEntriesOf(ip2uTransactions),
                      !.GroupEntries = GroupEntriesOf(groups)]
    /\ groups' = gGarbage(groups)
    /\ ip2uTransactions' = EmptyMap
    /\ cumChanges' = 0
    /\ flushPc' = "submit"
    /\ last' = [NoCall EXCEPT !.op = "drain"]
    /\ missed' = {}
    /\ closeDrained' = (closeDrained \/ flusherQuit)
    /\ submitted' = "none"
    /\ groupChanges' = 0
    /\ UNCHANGED << flusherL, callerPc, tasks >>

\* encoding/xml on payloadElement: a slice field tagged a>b>entry,omitempty
\* produces its container elements only when it has entries.
XmlMarshal(p) ==
    [version |-> p.Version,
     type |-> p.Type,
     payload |->
        [c \in {k \in {"login", "logout", "groups"} :
                   CASE k = "login" -> p.LoginEntries # {}
                     [] k = "logout" -> p.LogoutEntries # {}
                     [] OTHER -> p.GroupEntries # {}} |->
            CASE c = "login" -> p.LoginEntries
              [] c = "logout" ->  p.LogoutEntries
              [] OTHER ->
                   { IF e.Members = {}
                     THEN [name |-> e.Name]
                     ELSE [name |-> e.Name, members |-> e.Members] :
                       e \in p.GroupEntries }]]

\* A submission that is tried again when device.Uid returns an error.
FlushSubmit_Retries(ok) ==
    /\ flushPc = "submit"
    /\ flushPc' = (IF ok THEN "select" ELSE "submit")
    /\ submitted' = (IF ok THEN "ok" ELSE "error")
    /\ UNCHANGED << flushFrame, dataLock, flusherL, wg >>

\* UID.flushData: xml.Marshal and device.Uid, which returns a result (ok) or
\* an error; flushData drops both.
FlushSubmit(ok) ==
    /\ flushPc = "submit"
    /\ flushPc' = "select"
    /\ submitted' = (IF ok THEN "ok" ELSE "error")
    /\ UNCHANGED << flushFrame, dataLock, flusherL, wg >>

\* The envelope that the ranges of flushData build from the ledger as it is.
PendingEnvelope ==
    [payloadE EXCEPT
        !.LoginEntries = LoginEntriesOf(ip2uTransactions),
        !.LogoutEntries = LogoutEntriesOf(ip2uTransactions),
        !.GroupEntries = GroupEntriesOf(groups)]

\* A Marshall that serializes the ledger instead of the stored envelope.
Marshall_OfLedger == XmlMarshal(PendingEnvelope)

\* UID.Marshall
Marshall == XmlMarshal(payloadE)

\* ------------------------------------------------------------------ Close
closeFrame ==
    << payloadE, ledger, dataLock, flusherL, wg, tickPc, callerPc, initDone,
       last, closeDrained, submitted, groupChanges >>

\* UID.Close: the test of isRunning and close(uid.flusherQuit).
CloseCall ==
    /\ initDone # "no"
    /\ closePc = "idle"
    /\ IF isRunning
       THEN closePc' = "signal" /\ flusherQuit' = TRUE
       ELSE closePc' = "returned" /\ UNCHANGED flusherQuit
    /\ last' = Call("Close", <<>>, isRunning)
    /\ UNCHANGED << payloadE, ledger, dataLock, flusherL, wg, tickPc, callerPc,
                    initDone, closeDrained, submitted, groupChanges, tickerQuit,
                    isRunning, flushPc, missed >>

\* UID.Close: Lock, Signal, Unlock on uid.flusher.
CloseSignal ==
    /\ closePc = "signal"
    /\ flusherL = "free"
    /\ Signal("close")
    /\ closePc' = "tickerQuit"
    /\ UNCHANGED << closeFrame, flusherQuit, tickerQuit, isRunning >>

\* UID.Close: close(uid.tickerQuit).
CloseTicker ==
    /\ closePc = "tickerQuit"
    /\ tickerQuit' = TRUE
    /\ closePc' = "wait"
    /\ UNCHANGED << closeFrame, flusherQuit, isRunning, flushPc, missed >>

\* Close without the join on the wait group.
CloseWait_NoJoin ==
    /\ closePc = "wait"
    /\ isRunning' = FALSE
    /\ closePc' = "returned"
    /\ UNCHANGED << closeFrame, flusherQuit, tickerQuit, flushPc, missed >>

\* UID.Close: uid.wg.Wait() and the reset of isRunning.
CloseWait ==
    /\ closePc = "wait"
    /\ wg = 0
    /\ isRunning' = FALSE
    /\ closePc' = "returned"
    /\ UNCHANGED << closeFrame, flusherQuit, tickerQuit, flushPc, missed >>

\* ------------------------------------------------------- specifications
Engine ==
    \/ \E authOk \in BOOLEAN : UIDInit(authOk)
    \/ CallerReturn
    \/ Tick
    \/ TickSignal
    \/ TickQuit
    \/ FlushSelect
    \/ FlushLock
    \/ FlushWait
    \/ FlushRelock
    \/ FlushUnlock
    \/ FlushDataLock
    \/ FlushDrain
    \/ \E ok \in BOOLEAN : FlushSubmit(ok)
    \/ CloseCall
    \/ CloseSignal
    \/ CloseTicker
    \/ CloseWait

\* The varied workload: few calls, of every operation.
Next ==
    \/ Engine
    \/ \E a \in LoginArgs : cumChanges < MaxPending /\ AddLogin(a[1], a[2], a[3])
    \/ \E a \in LogoutArgs : cumChanges < MaxPending /\ AddLogout(a[1], a[2])
    \/ \E a \in GroupArgs : cumChanges < MaxPending /\ AddGroupMember(a[1], a[2])
    \/ \E a \in GroupArgs : cumChanges < MaxPending /\ RemoveGroupMember(a[1], a[2])

Spec == Init /\ [][Next]_vars

\* The group-churn workload: single-step changes until the counter passes
\* MAXCHANGES.
NextChurn ==
    \/ Engine
    \/ \E a \in ChurnLoginArgs :
          cumChanges < MAXCHANGES + MaxOvershoot /\ AddLogin(a[1], a[2], a[3])
    \/ \E a \in ChurnArgs :
          cumChanges < MAXCHANGES + MaxOvershoot /\ AddGroupMember(a[1], a[2])
    \/ \E a \in ChurnArgs :
          cumChanges < MAXCHANGES + MaxOvershoot /\ RemoveGroupMember(a[1], a[2])

SpecChurn == Init /\ [][NextChurn]_vars

\* The workload of an engine that is never closed: one address that logs in
\* and out, one group member that comes and goes.
LiveLogoutArgs == { <<"alice", "10.0.0.1">> }

NextLive ==
    \/ \E authOk \in BOOLEAN : UIDInit(authOk)
    \/ CallerReturn
    \/ Tick
    \/ TickSignal
    \/ FlushSelect
    \/ FlushLock
    \/ FlushWait
    \/ FlushRelock
    \/ FlushUnlock
    \/ FlushDataLock
    \/ FlushDrain
    \/ \E ok \in BOOLEAN : FlushSubmit(ok)
    \/ \E a \in ChurnLoginArgs : cumChanges < MaxPending /\ AddLogin(a[1], a[2], a[3])
    \/ \E a \in LiveLogoutArgs : cumChanges < MaxPending /\ AddLogout(a[1], a[2])
    \/ \E a \in ChurnArgs : cumChanges < MaxPending /\ AddGroupMember(a[1], a[2])
    \/ \E a \in ChurnArgs : cumChanges < MaxPending /\ RemoveGroupMember(a[1], a[2])

\* The steps of the flush goroutine that wait for no lock held by another.
FlushRuns ==
    \/ FlushSelect
    \/ FlushLock
    \/ FlushWait
    \/ FlushRelock
    \/ FlushUnlock
    \/ FlushDrain
    \/ \E ok \in BOOLEAN : FlushSubmit(ok)

\* The scheduling of the goroutines: each one that can run does run, every
\* call of device.Uid and every mutation call returns, the ticker keeps
\* ticking, and a goroutine queued on dataLock gets it (sync.Mutex hands the
\* lock to a waiter that starves).
Fairness ==
    /\ WF_vars(FlushRuns)
    /\ SF_vars(FlushDataLock)
    /\ SF_vars(Tick)
    /\ WF_vars(TickSignal)
    /\ WF_vars(CallerReturn)

SpecLive == Init /\ [][NextLive]_vars /\ Fairness

TypeOK ==
    /\ initDone \in {"no", "err", "ok"}
    /\ isRunning \in BOOLEAN
    /\ cumChanges \in 0..(MAXCHANGES + MaxOvershoot)
    /\ dataLock \in {"free", "caller", "tick", "flush"}
    /\ flusherL \in {"free", "flush"}
    /\ wg \in 0..2
    /\ flushPc \in {"off", "select", "lock", "wait", "parked", "woken", "unlock",
                    "dataLock", "drain", "submit", "done"}
    /\ tickPc \in {"off", "select", "signal", "done"}
    /\ closePc \in {"idle", "signal", "tickerQuit", "wait", "returned"}
    /\ callerPc \in {"idle", "unlock", "signal"}
    /\ missed \subseteq {"threshold", "tick", "close"}
    /\ submitted \in {"none", "ok", "error"}
    /\ groupChanges \in 0..(MAXCHANGES + MaxOvershoot)

\* ------------------------------------------------------------------ claims
\* A mutation operation takes dataLock and changes the ledger in this step.
CallStep == callerPc = "idle" /\ callerPc' # "idle"

\* The flush task drains the ledger in this step.
DrainStep == flushPc = "drain" /\ flushPc' = "submit"

CloseInProgress == closePc \in {"signal", "tickerQuit", "wait"}

\* C1: a wake signal raised while the flush task is busy (submitting, or
\* between its quit check and Wait) is not lost: the flush task is never
\* blocked in Wait while such a signal is outstanding.
C1_WakeSignalDurable == ~(flushPc = "parked" /\ missed # {})

\* C2: Close terminates: no state is reachable in which Close waits on the
\* wait group, its quit channels closed and its one wake signal spent, while
\* the flush task is parked in Wait and the timer task has exited.
C2_CloseNeverStuck ==
    ~(closePc = "wait" /\ flushPc = "parked" /\ tickPc = "done" /\ callerPc = "idle")

\* C3: once Close has returned, both background tasks have terminated (they
\* were never started if Init failed) and no transport submission is in
\* progress in that state or in any state after it.
C3_ShutdownOrdering ==
    closePc = "returned" =>
        /\ flushPc \in {"off", "done"}
        /\ tickPc \in {"off", "done"}
        /\ wg = 0

W3_ClosedWithPendingMutation ==
    /\ closePc = "returned"
    /\ flushPc = "done"
    /\ tickPc = "done"
    /\ last.op = "AddLogin"
    /\ cumChanges > 0

\* C4 as stated: between the call to Close and its return the flush task does
\* not drain the mutations that were pending when Close was called (last.op =
\* "Close": no mutation call and no drain since).
C4_NoFinalFlush ==
    [][(CloseInProgress /\ last.op = "Close" /\ DrainStep) => cumChanges = 0]_vars

\* C4 as amended: once Close has closed the flush task's quit channel, the
\* flush task drains at most once more.
C4_AtMostOneDrainAfterQuit ==
    [][(flusherQuit /\ DrainStep) => ~closeDrained]_vars

W4_FinalFlushDuringClose ==
    /\ closePc = "wait"
    /\ closeDrained
    /\ flushPc = "submit"
    /\ last.op = "drain"
    /\ payloadE.LoginEntries # {}

\* C5: AddLogin on an address with no pending entry, followed by AddLogin or
\* AddLogout on that address, leaves no entry for the address and the counter
\* at its value before the first call; a drain that follows a cancelling call
\* puts no entry for the address in the batch.
C5_ToggleCancellation ==
    [][/\ (/\ CallStep
           /\ last.op = "AddLogin" /\ ~last.hit
           /\ last'.op \in {"AddLogin", "AddLogout"}
           /\ last'.args[2] = last.args[2])
          => /\ last.args[2] \notin DOMAIN ip2uTransactions'
             /\ cumChanges' = last.cum
       /\ (DrainStep /\ last.op \in {"AddLogin", "AddLogout"} /\ last.hit)
          => \A e \in payloadE'.LoginEntries \cup payloadE'.LogoutEntries :
                e.Ip # last.args[2]
      ]_vars

W5_LoginCancelledByLogout ==
    /\ last.op = "AddLogout"
    /\ last.hit
    /\ last.args[2] \notin DOMAIN ip2uTransactions
    /\ cumChanges = last.cum - 1
    /\ callerPc = "unlock"

\* C6: when the counter reaches exactly MAXCHANGES a flush follows without a
\* timer tick: the flush task is never blocked in Wait after the threshold
\* signal was raised for changes it has not drained.
C6_ThresholdFlushes == ~(flushPc = "parked" /\ "threshold" \in missed)

\* C7 as stated: the drain that follows the removal of a group's last member
\* leaves the group out of the envelope and of the group map, and Marshall no
\* longer shows it.
C7_EmptyGroupOmitted ==
    [][DrainStep =>
         \A g \in DOMAIN groups :
            groups[g] = {} =>
               /\ g \notin DOMAIN groups'
               /\ \A e \in payloadE'.GroupEntries : e.Name # g
               /\ "groups" \in DOMAIN Marshall'.payload =>
                     \A x \in Marshall'.payload["groups"] : x.name # g
      ]_vars

\* C7 as amended: that drain deletes the group from the group map and emits
\* it in the envelope as an entry without members, which Marshall then shows.
C7_EmptyGroupEmittedThenPurged ==
    [][DrainStep =>
         \A g \in DOMAIN groups :
            groups[g] = {} =>
               /\ g \notin DOMAIN groups'
               /\ [Name |-> g, Members |-> {}] \in payloadE'.GroupEntries
               /\ "groups" \in DOMAIN Marshall'.payload
               /\ [name |-> g] \in Marshall'.payload["groups"]
      ]_vars

W7_EmptyGroupDrained ==
    /\ flushPc = "submit"
    /\ last.op = "drain"
    /\ "grp1" \notin DOMAIN groups
    /\ [Name |-> "grp1", Members |-> {}] \in payloadE.GroupEntries

\* C8: at each drain the envelope's logins are exactly the pending entries of
\* kind login, its logouts exactly those of kind logout, and its groups
\* exactly the group map, all as they are at that instant.
C8_BatchContent ==
    [][DrainStep =>
         LET m == ip2uTransactions
             p == payloadE'
         IN  /\ \A ip \in DOMAIN m :
                   IF m[ip].isLogin
                   THEN [Name |-> m[ip].username, Ip |-> ip,
                         Timeout |-> m[ip].timeout] \in p.LoginEntries
                   ELSE [Name |-> m[ip].username, Ip |-> ip] \in p.LogoutEntries
             /\ \A e \in p.LoginEntries : e.Ip \in DOMAIN m /\ m[e.Ip].isLogin
             /\ \A e \in p.LogoutEntries : e.Ip \in DOMAIN m /\ ~m[e.Ip].isLogin
             /\ Cardinality(p.LoginEntries) + Cardinality(p.LogoutEntries)
                   = Cardinality(DOMAIN m)
             /\ {e.Name : e \in p.GroupEntries} = DOMAIN groups
             /\ Cardinality(p.GroupEntries) = Cardinality(DOMAIN groups)
             /\ \A e \in p.GroupEntries :
                   {x.Name : x \in e.Members} = groups[e.Name]
      ]_vars

W8_EndToEndBatch ==
    /\ flushPc = "submit"
    /\ payloadE.LoginEntries =
          { [Name |-> "alice", Ip |-> "10.0.0.1", Timeout |-> "60"],
            [Name |-> "bob", Ip |-> "10.0.0.2", Timeout |-> ""] }
    /\ payloadE.LogoutEntries = {}
    /\ payloadE.GroupEntries =
          { [Name |-> "grp1", Members |-> {[Name |-> "alice"]}] }
    /\ DOMAIN Marshall.payload = {"login", "groups"}

\* C9: AddGroupMember(g, m) on a group that contains m changes neither the
\* ledger nor the counter; of two consecutive calls AddGroupMember(g, m), the
\* second leaves m in g and the counter one above its value before the first.
C9_GroupIdempotence ==
    [][/\ (CallStep /\ last'.op = "AddGroupMember" /\ last'.hit)
          => UNCHANGED << ip2uTransactions, groups, cumChanges >>
       /\ (/\ CallStep
           /\ last.op = "AddGroupMember" /\ ~last.hit
           /\ last'.op = "AddGroupMember"
           /\ last'.args = last.args)
          => /\ last.args[1] \in DOMAIN groups'
             /\ last.args[2] \in groups'[last.args[1]]
             /\ groups' = groups
             /\ cumChanges' = last.cum + 1
      ]_vars

W9_SecondAddIsNoop ==
    /\ last.op = "AddGroupMember"
    /\ last.hit
    /\ callerPc = "unlock"
    /\ cumChanges = last.cum
    /\ groups[last.args[1]] = {last.args[2]}

\* C10: RemoveGroupMember(g, m) on an absent group or an absent member
\* changes nothing and goes on to no wake signal; on a member of g it removes
\* m, keeps g in the map, and adds exactly 1 to the counter.
C10_RemovalSemantics ==
    [][(CallStep /\ last'.op = "RemoveGroupMember") =>
         LET g == last'.args[1]
             m == last'.args[2]
         IN  IF g \in DOMAIN groups /\ m \in groups[g]
             THEN /\ DOMAIN groups' = DOMAIN groups
                  /\ groups'[g] = groups[g] \ {m}
                  /\ \A h \in DOMAIN groups \ {g} : groups'[h] = groups[h]
                  /\ cumChanges' = cumChanges + 1
                  /\ ip2uTransactions' = ip2uTransactions
             ELSE /\ UNCHANGED << ip2uTransactions, groups, cumChanges >>
                  /\ callerPc' = "unlock"
      ]_vars

W10_RemovedLastMember ==
    /\ last.op = "RemoveGroupMember"
    /\ last.hit
    /\ callerPc = "unlock"
    /\ groups[last.args[1]] = {}
    /\ cumChanges = last.cum + 1

\* C11: while the flush task is inside the transport submission it holds
\* neither dataLock nor the condition variable's lock: either dataLock is free
\* and every mutation operation can take it, or its holder (a mutation caller
\* or the timer task) can finish and release it without the flush task.
C11_NonBlockingCallers ==
    flushPc = "submit" =>
        /\ dataLock # "flush"
        /\ flusherL # "flush"
        /\ \/ /\ dataLock = "free"
              /\ \A a \in LoginArgs : ENABLED AddLogin(a[1], a[2], a[3])
              /\ \A a \in LogoutArgs : ENABLED AddLogout(a[1], a[2])
              /\ \A a \in GroupArgs : ENABLED AddGroupMember(a[1], a[2])
              /\ \A a \in GroupArgs : ENABLED RemoveGroupMember(a[1], a[2])
           \/ dataLock = "caller" /\ ENABLED CallerReturn
           \/ dataLock = "tick" /\ ENABLED TickSignal

W11_MutationDuringSubmission ==
    /\ flushPc = "submit"
    /\ payloadE.LoginEntries # {}
    /\ last.op = "AddLogin"
    /\ callerPc = "idle"
    /\ dataLock = "free"
    /\ cumChanges = 1
    /\ Cardinality(DOMAIN ip2uTransactions) = 1

\* C12: after an Init whose authentication failed neither task was started,
\* IsRunning is false and Close does nothing (it closes no channel and waits
\* for nothing); after an Init that succeeded both tasks were started, and
\* IsRunning is true until Close returns.
C12_InitFailureStartsNothing ==
    /\ initDone = "no" => flushPc = "off" /\ tickPc = "off" /\ ~IsRunning
    /\ initDone = "err" =>
          /\ flushPc = "off"
          /\ tickPc = "off"
          /\ wg = 0
          /\ ~IsRunning
          /\ ~flusherQuit
          /\ ~tickerQuit
          /\ closePc \in {"idle", "returned"}
    /\ initDone = "ok" =>
          /\ flushPc # "off"
          /\ tickPc # "off"
          /\ IsRunning <=> closePc # "returned"

W12_CloseAfterFailedInit ==
    /\ initDone = "err"
    /\ closePc = "returned"
    /\ last.op = "Close"
    /\ ~last.hit
    /\ flushPc = "off"
    /\ tickPc = "off"

\* The flush task comes back from device.Uid in this step.
SubmitStep == flushPc = "submit" /\ submitted' # submitted

\* C13: a drained batch is submitted once, whatever device.Uid returns: the
\* return from the submission, error or not, changes neither the pending map,
\* the group map, the counter nor the envelope and takes the flush task back
\* to the top of its loop; the ledger changes only in a mutation call or a
\* drain, so nothing is ever put back.
C13_SubmissionFailureSwallowed ==
    [][/\ SubmitStep =>
             /\ submitted = "none"
             /\ UNCHANGED << ledger, payloadE >>
             /\ flushPc' = "select"
       /\ flushPc' = "submit" => submitted' = "none"
       /\ ledger' # ledger => (CallStep \/ DrainStep)
      ]_vars

W13_ParkedAfterFailedSubmission ==
    /\ submitted = "error"
    /\ flushPc = "parked"
    /\ last.op = "drain"
    /\ payloadE.LoginEntries # {}
    /\ ip2uTransactions = EmptyMap
    /\ cumChanges = 0

\* C14 as stated: after mutation calls with no drain since, Marshall returns
\* the envelope of the ledger as it is: its login, logout and group entries
\* are those of the pending map and the group map.
C14_MarshallShowsLedger ==
    (/\ callerPc = "idle"
     /\ last.op \in {"AddLogin", "AddLogout", "AddGroupMember", "RemoveGroupMember"})
        => Marshall = XmlMarshal(PendingEnvelope)

\* C14 as amended: Marshall returns the stored envelope, which only a drain
\* rewrites: it has version and type and no entry before the first drain,
\* every drain sets it to the envelope of the ledger it drains, and mutation
\* calls leave it as it is.
C14_MarshallShowsLastDrain ==
    [][/\ CallStep => Marshall' = Marshall
       /\ DrainStep => Marshall' = XmlMarshal(PendingEnvelope)
       /\ Marshall' # Marshall =>
             \/ DrainStep
             \/ /\ initDone = "no"
                /\ DOMAIN Marshall.payload = {}
                /\ Marshall' = [version |-> UIDVERSION, type |-> UIDTYPE,
                                payload |-> Marshall.payload]
      ]_vars

W14_MarshallShowsFlushedLogin ==
    /\ callerPc = "idle"
    /\ last.op = "AddLogin"
    /\ ~last.hit
    /\ ip2uTransactions # EmptyMap
    /\ DOMAIN Marshall.payload = {"login"}
    /\ \A e \in Marshall.payload["login"] : e.Ip \notin DOMAIN ip2uTransactions

\* C15: whenever dataLock is free the counter is the number of entries of the
\* pending map plus the number of effective group membership changes since the
\* latest drain; it is never negative and never below the size of the map.
C15_CounterConsistency ==
    dataLock = "free" =>
        /\ cumChanges = Cardinality(DOMAIN ip2uTransactions) + groupChanges
        /\ cumChanges >= 0
        /\ cumChanges >= Cardinality(DOMAIN ip2uTransactions)

W15_CounterAfterCancel ==
    /\ dataLock = "free"
    /\ last.op = "AddLogout"
    /\ last.hit
    /\ last.cum = 2
    /\ cumChanges = 1
    /\ ip2uTransactions = EmptyMap
    /\ groupChanges = 1

\* C16: the drain step, which ends with dataLock.Unlock, leaves the pending
\* map empty and the counter at zero; every group that had a member is still
\* in the group map with the same members, and the groups it removed had none.
C16_DrainPostState ==
    [][DrainStep =>
         /\ dataLock' = "free"
         /\ ip2uTransactions' = EmptyMap
         /\ cumChanges' = 0
         /\ DOMAIN groups' \subseteq DOMAIN groups
         /\ \A g \in DOMAIN groups :
               IF groups[g] # {}
               THEN g \in DOMAIN groups' /\ groups'[g] = groups[g]
               ELSE TRUE
         /\ \A g \in DOMAIN groups \ DOMAIN groups' : groups[g] = {}
      ]_vars

W16_GroupSurvivesDrain ==
    /\ flushPc = "submit"
    /\ last.op = "drain"
    /\ dataLock = "free"
    /\ payloadE.LoginEntries # {}
    /\ ip2uTransactions = EmptyMap
    /\ cumChanges = 0
    /\ "grp1" \in DOMAIN groups
    /\ groups["grp1"] = {"alice", "bob"}

\* C17: an entry of the pending map stays as it is until a toggle-cancel call
\* on its address deletes it or a drain moves it into that drain's batch; a
\* batch holds exactly the entries its drain cleared, no step but a drain
\* changes it, and the flush task leaves the submission only by handing the
\* batch, not handed before, to device.Uid.
C17_NoLossNoDuplication ==
    [][/\ \A ip \in DOMAIN ip2uTransactions :
             \/ ip \in DOMAIN ip2uTransactions'
                   /\ ip2uTransactions'[ip] = ip2uTransactions[ip]
             \/ CallStep
                   /\ last'.op \in {"AddLogin", "AddLogout"}
                   /\ last'.hit
                   /\ last'.args[2] = ip
                   /\ ip \notin DOMAIN ip2uTransactions'
             \/ DrainStep
                   /\ ip \notin DOMAIN ip2uTransactions'
                   /\ IF ip2uTransactions[ip].isLogin
                      THEN [Name |-> ip2uTransactions[ip].username, Ip |-> ip,
                            Timeout |-> ip2uTransactions[ip].timeout]
                              \in payloadE'.LoginEntries
                      ELSE [Name |-> ip2uTransactions[ip].username, Ip |-> ip]
                              \in payloadE'.LogoutEntries
       /\ DrainStep =>
             /\ {e.Ip : e \in payloadE'.LoginEntries \cup payloadE'.LogoutEntries}
                   = DOMAIN ip2uTransactions
             /\ Cardinality(payloadE'.LoginEntries)
                   + Cardinality(payloadE'.LogoutEntries)
                   = Cardinality(DOMAIN ip2uTransactions)
             /\ submitted' = "none"
       /\ (payloadE'.LoginEntries # payloadE.LoginEntries
              \/ payloadE'.LogoutEntries # payloadE.LogoutEntries) => DrainStep
       /\ (flushPc = "submit" /\ flushPc' # "submit") =>
             /\ submitted = "none"
             /\ submitted' # "none"
             /\ payloadE' = payloadE
      ]_vars

W17_MutationsAroundBatch ==
    /\ flushPc = "submit"
    /\ submitted = "none"
    /\ payloadE.LoginEntries # {}
    /\ last.op = "AddLogout"
    /\ last.hit
    /\ ip2uTransactions # EmptyMap
    /\ \A e \in payloadE.LoginEntries \cup payloadE.LogoutEntries :
          e.Ip \notin DOMAIN ip2uTransactions

\* C18: the timer task goes on to its Signal only from a tick that found the
\* counter above zero, and from such a tick it can always raise it; no step of
\* the timer task changes the pending map, the group map, the counter or the
\* envelope; and the flush task leaves Wait only on the Signal of a tick with
\* the counter above zero, of a caller at the threshold, or of Close.
C18_TimerTickEffect ==
    [][/\ tickPc' = "signal" => (cumChanges' > 0 /\ dataLock' = "tick")
       /\ (tickPc = "signal" /\ flusherL = "free") => ENABLED TickSignal
       /\ (tickPc # "off" /\ tickPc' # tickPc) => UNCHANGED << ledger, payloadE >>
       /\ (tickPc = "signal" /\ tickPc' = "select" /\ flushPc = "parked")
             => flushPc' = "woken"
       /\ (flushPc = "parked" /\ flushPc' # "parked") =>
             /\ flushPc' = "woken"
             /\ \/ tickPc = "signal" /\ tickPc' = "select" /\ cumChanges > 0
                \/ callerPc = "signal" /\ callerPc' = "idle"
                \/ closePc = "signal" /\ closePc' = "tickerQuit"
      ]_vars

W18_WokenByTick ==
    /\ flushPc = "woken"
    /\ tickPc = "select"
    /\ closePc = "idle"
    /\ callerPc = "idle"
    /\ dataLock = "free"
    /\ cumChanges > 0
    /\ cumChanges < MAXCHANGES

\* C19: the counter at a drain, which bounds the number of login and logout
\* entries of the submitted envelope, never exceeds MAXCHANGES.
C19_BoundedBatch == [][DrainStep => cumChanges <= MAXCHANGES]_vars

\* C20: a mutation call moves the counter by -1, 0 or +1; a call that moves it
\* onto MAXCHANGES, from below or from above, goes on to raise the wake signal
\* before it returns, and no other call does; the counter changes only in a
\* mutation call or a drain, so it never passes from below MAXCHANGES to above
\* it in one step.
C20_SingleStepEqualityTrigger ==
    [][/\ CallStep =>
             /\ cumChanges' - cumChanges \in {-1, 0, 1}
             /\ callerPc' = "signal" <=>
                   (cumChanges' # cumChanges /\ cumChanges' = MAXCHANGES)
       /\ (callerPc = "signal" /\ callerPc' # "signal") =>
             /\ flusherL = "free"
             /\ flushPc = "parked" => flushPc' = "woken"
       /\ cumChanges' # cumChanges => (CallStep \/ DrainStep)
       /\ ~(cumChanges < MAXCHANGES /\ cumChanges' > MAXCHANGES)
      ]_vars

W20_SignalOnDecrementToThreshold ==
    /\ last.op = "AddLogin"
    /\ last.hit
    /\ last.cum = MAXCHANGES + 1
    /\ cumChanges = MAXCHANGES
    /\ callerPc = "idle"
    /\ flushPc = "woken"
    /\ tickPc = "select"
    /\ closePc = "idle"

\* C21: with Close never called, the goroutines scheduled fairly and every
\* submission returning, a counter above zero comes back to zero, a pending
\* entry leaves the pending map (by a toggle-cancel call or a drain), and a
\* drained batch is handed to device.Uid, also after wake signals were lost.
C21_EventualFlush ==
    /\ (cumChanges > 0) ~> (cumChanges = 0)
    /\ ("10.0.0.1" \in DOMAIN ip2uTransactions)
          ~> ("10.0.0.1" \notin DOMAIN ip2uTransactions)
    /\ (flushPc = "submit") ~> (submitted # "none")

W21_TickAfterLostSignal ==
    /\ closePc = "idle"
    /\ tickPc = "signal"
    /\ flushPc = "parked"
    /\ "tick" \in missed
    /\ cumChanges > 0
    /\ ip2uTransactions # EmptyMap

\* C22: a mutation caller and the timer task take flusher.L only while they
\* hold dataLock; the flush task never holds both locks, and holds neither the
\* one while it waits for the other; so whoever holds a lock can take a step,
\* or waits for flusher.L while the flush task, its holder, can take one: no
\* cycle of waiting on the two locks is reachable.
C22_LockDiscipline ==
    /\ callerPc = "signal" => dataLock = "caller"
    /\ tickPc = "signal" => dataLock = "tick"
    /\ ~(flusherL = "flush" /\ dataLock = "flush")
    /\ flushPc = "dataLock" => flusherL # "flush"
    /\ flushPc \in {"lock", "woken"} => dataLock # "flush"
    /\ flusherL = "flush" => (ENABLED FlushWait \/ ENABLED FlushUnlock)
    /\ dataLock = "flush" => ENABLED FlushDrain
    /\ dataLock = "caller" => (ENABLED CallerReturn \/ flusherL = "flush")
    /\ dataLock = "tick" => (ENABLED TickSignal \/ flusherL = "flush")
    /\ closePc = "signal" => (ENABLED CloseSignal \/ flusherL = "flush")

W22_CallerWaitsForFlusherL ==
    /\ callerPc = "signal"
    /\ dataLock = "caller"
    /\ flusherL = "flush"
    /\ flushPc = "unlock"
    /\ ~ENABLED CallerReturn

====
